---- MODULE Spec2Model ----
(***************************************************************************)
(* Model of swatchify's generate command: commands/generate.rs (write,     *)
(* render, the FilamentRecord Display impl) and helpers/fs.rs              *)
(* (list_existing_swatches, is_printable_file, create_output_dir).         *)
(*                                                                         *)
(* Strings are sequences of one-character strings, so that formatting,     *)
(* Path::with_extension and Path::extension are computed character by      *)
(* character.  A path below the output root is the sequence of its         *)
(* components; the output root itself is the empty sequence.               *)
(***************************************************************************)
EXTENDS Naturals, Sequences, FiniteSets, TLC

\* Longest inventory (number of CSV rows after the header) that is explored.
MaxRecords == 2

---------------------------------------------------------------------------
\* Strings and std::path

DOT == "."

\* the separator written by the Display impl, " - "
SEP == <<" ", "-", " ">>

\* str::to_lowercase on the characters that occur in the model
LowerChar(c) ==
  CASE c = "S" -> "s"
    [] c = "T" -> "t"
    [] c = "L" -> "l"
    [] c = "A" -> "a"
    [] c = "B" -> "b"
    [] c = "P" -> "p"
    [] c = "R" -> "r"
    [] OTHER -> c

to_lowercase(s) == [i \in DOMAIN s |-> LowerChar(s[i])]

\* index of the last '.' of a file name, 0 when there is none
LastDot(s) ==
  LET dots == {i \in DOMAIN s : s[i] = DOT}
  IN  IF dots = {} THEN 0 ELSE CHOOSE i \in dots : \A j \in dots : j <= i

\* std::path rsplit_file_at_dot: a name has an extension when its last '.'
\* is preceded by at least one character (and the name is not "..")
HasExtension(s) == LastDot(s) > 1 /\ s # <<DOT, DOT>>

\* Path::file_stem of a one-component path
file_stem(s) == IF HasExtension(s) THEN SubSeq(s, 1, LastDot(s) - 1) ELSE s

\* Path::extension of a one-component path, <<>> standing for Some("") and
\* NoExtension for None
NoExtension == <<"<none>">>

extension(s) ==
  IF HasExtension(s) THEN SubSeq(s, LastDot(s) + 1, Len(s)) ELSE NoExtension

\* Path::with_extension with a non-empty extension: the name is cut back to
\* its stem, then '.' and the extension are appended
with_extension(s, ext) == file_stem(s) \o <<DOT>> \o ext

\* fs.rs: PRINTABLE_FILE_TYPES
PRINTABLE_FILE_TYPES ==
  { <<"s", "t", "e", "p">>, <<"3", "m", "f">>, <<"s", "t", "l">>, <<"o", "b", "j">> }

\* fs.rs: is_printable_file
is_printable_file(file) == extension(to_lowercase(file)) \in PRINTABLE_FILE_TYPES

\* generate.rs: enum OutputFormat, with the extension render() gives each
OutputFormat == {"Stl", "ThreeMf"}

FormatExtension(fmt) ==
  IF fmt = "ThreeMf" THEN <<"3", "m", "f">> ELSE <<"s", "t", "l">>

\* generate.rs: impl Display for FilamentRecord
to_string(f) == f.manufacturer \o SEP \o f.material \o SEP \o f.color

\* generate.rs, render(): let filename = ...
Filename(f, fmt) == with_extension(to_string(f), FormatExtension(fmt))

\* generate.rs, render(): destination_folder.join(material).join(manufacturer)
DestinationDir(f) == <<f.material, f.manufacturer>>

\* generate.rs, render(): dst.join(filename)
OutputPath(f, fmt) == Append(DestinationDir(f), Filename(f, fmt))

---------------------------------------------------------------------------
\* The inventory

\* generate.rs: struct FilamentRecord.  RecA and RecA2 differ in temperature
\* only, RecDotExt has a color that ends like an output file, RecDotNum has
\* a color with a '.' and another manufacturer of the same material.
RecA == [manufacturer |-> <<"A">>, color |-> <<"R">>, material |-> <<"P">>,
         temperature |-> 200]

RecA2 == [manufacturer |-> <<"A">>, color |-> <<"R">>, material |-> <<"P">>,
          temperature |-> 210]

RecDotExt == [manufacturer |-> <<"A">>, color |-> <<"R", ".", "s", "t", "l">>,
              material |-> <<"P">>, temperature |-> 200]

RecDotNum == [manufacturer |-> <<"B">>, color |-> <<"R", ".", "5">>,
              material |-> <<"P">>, temperature |-> 200]

FilamentRecords == {RecA, RecA2, RecDotExt, RecDotNum}

\* A CSV row either deserializes into a FilamentRecord or fails to
InventoryRows ==
  [parse : {"Ok"}, rec : FilamentRecords] \cup {[parse |-> "Err", rec |-> RecA]}

Inventories == UNION {[1..n -> InventoryRows] : n \in 0..MaxRecords}

\* rayon worker threads; `pool' holds the ones of the run
WorkerIds == {"w1", "w2", "w3"}

VARIABLES
  options,      \* GeneratorOptions and the inventory file the run is given
  fsDirs,       \* directories at and below the output root
  fsFiles,      \* non-directory files at and below the output root
  tmpDirs,      \* live temporary directories, named by the worker that made them
  tmpFiles,     \* files inside them: <<worker, name>>
  pool,         \* the worker threads of the pool
  wpc,          \* position of write(): "start", "pool", "done"
  result,       \* what write() returned
  existing,     \* write(): let existing
  filaments,    \* write(): let filaments
  todo,         \* indices of filaments no worker has taken yet
  full,         \* try_for_each's shared stop flag
  failed,       \* indices whose render() has returned Err
  wk,           \* per worker: position in render(), its record and output path
  run,          \* "first" or "second" invocation of the command
  started,      \* history: indices whose render() has begun in this run
  lateStart,    \* history: a render() began after another had returned Err
  takenAfterFull, \* history: a record was taken while the stop flag was set
  invoked,      \* history: <<index, output path>> of every renderer process
  produced,     \* history: output paths written by a renderer that exited 0
  nonzero,      \* history: indices whose renderer exited with a non-zero status
  firstClean,   \* history: the first run returned Ok and every renderer wrote its file
  cdw           \* per worker: position in a stepwise create_output_dir call

vars == <<options, fsDirs, fsFiles, tmpDirs, tmpFiles, pool, wpc, result,
          existing, filaments, todo, full, failed, wk, run, started, lateStart,
          takenAfterFull, invoked, produced, nonzero, firstClean, cdw>>

Root == <<>>

Parent(p) == SubSeq(p, 1, Len(p) - 1)

Basename(p) == p[Len(p)]

\* every prefix of a path, the root and the path itself included
Prefixes(p) == {SubSeq(p, 1, n) : n \in 0..Len(p)}

\* fs.rs: list_existing_swatches.  WalkDir descends into every directory and
\* keeps the files is_dir_or_printable lets through; their file names are
\* collected.
list_existing_swatches(files) ==
  {Basename(p) : p \in {q \in files : q # Root /\ is_printable_file(Basename(q))}}

\* fs.rs: create_output_dir as one step: the metadata check, then
\* create_dir_all, which makes every missing ancestor and fails on a
\* component that is not a directory
create_output_dir(dirs, files, path) ==
  IF path \in dirs THEN [res |-> "Ok", dirs |-> dirs]
  ELSE IF path \in files THEN [res |-> "Inaccessible", dirs |-> dirs]
  ELSE IF Prefixes(path) \cap files # {} THEN [res |-> "Io", dirs |-> dirs]
  ELSE [res |-> "Ok", dirs |-> dirs \cup Prefixes(path)]

\* Mutant of OpenInventory: a file that cannot be opened reads as an empty
\* inventory
OpenInventoryLenient(opts) == [res |-> "Ok", rows |-> opts.rows]

\* write(): csv::Reader::from_path(...)?, Ok with the rows of the file or Err
OpenInventory(opts) ==
  IF opts.inventory_file = "present"
  THEN [res |-> "Ok", rows |-> opts.rows]
  ELSE [res |-> "Err", rows |-> <<>>]

\* write(): reader.deserialize().filter_map(Result::ok)
ParsedRecords(rows) ==
  LET ok == {i \in DOMAIN rows : rows[i].parse = "Ok"}
      F[i \in 0..Len(rows)] ==
        IF i = 0 THEN <<>>
        ELSE IF i \in ok THEN Append(F[i - 1], rows[i].rec) ELSE F[i - 1]
  IN  F[Len(rows)]

\* write(): .filter(|f| !existing.contains(&f.to_string()))
KeepFilament(f, exist) == to_string(f) \notin exist

PendingFilaments(recs, exist) == SelectSeq(recs, LAMBDA f : KeepFilament(f, exist))

NoResult == [kind |-> "none", item |-> 0, cause |-> "none"]

IdleWorker == [pc |-> "idle", item |-> 0, dst |-> <<>>, res |-> "none",
               exit |-> "none", cause |-> "none"]

IdleDirCall == [pc |-> "off", path |-> <<>>, stack |-> <<>>, res |-> "none",
                raced |-> FALSE]

\* the state a run of write() begins in
RunStart ==
  /\ wpc = "start"
  /\ result = NoResult
  /\ existing = {}
  /\ filaments = <<>>
  /\ todo = {}
  /\ full = FALSE
  /\ failed = {}
  /\ wk = [w \in WorkerIds |-> IdleWorker]
  /\ started = {}
  /\ lateStart = FALSE
  /\ takenAfterFull = FALSE
  /\ invoked = {}
  /\ produced = {}
  /\ nonzero = {}
  /\ tmpDirs = {}
  /\ tmpFiles = {}

AllOptions ==
  [inventory_file : {"present", "missing"}, rows : Inventories,
   output_format : OutputFormat, force : BOOLEAN]

\* The output root is absent, an empty directory, or a regular file
InitFs ==
  \/ fsDirs = {} /\ fsFiles = {}
  \/ fsDirs = {Root} /\ fsFiles = {}
  \/ fsDirs = {} /\ fsFiles = {Root}

\* One run of the command on a pool of two worker threads.  An inventory
\* file that cannot be opened has no rows to give.
Init ==
  /\ options \in AllOptions
  /\ options.inventory_file = "missing" => options.rows = <<>>
  /\ InitFs
  /\ pool = {"w1", "w2"}
  /\ run = "first"
  /\ firstClean = FALSE
  /\ cdw = [w \in WorkerIds |-> IdleDirCall]
  /\ RunStart

---------------------------------------------------------------------------
\* write(), up to the parallel iterator

\* write(): lines 175-194, run by the calling thread before any worker exists
write_setup ==
  /\ wpc = "start"
  /\ LET root == create_output_dir(fsDirs, fsFiles, Root)
         inv == OpenInventory(options)
         exist == list_existing_swatches(fsFiles)
         pending == PendingFilaments(ParsedRecords(inv.rows), exist)
     IN  IF root.res # "Ok"
         THEN /\ result' = [kind |-> "Err", item |-> 0, cause |-> "root"]
              /\ wpc' = "done"
              /\ UNCHANGED <<fsDirs, existing, filaments, todo>>
         ELSE /\ fsDirs' = root.dirs
              /\ existing' = exist
              /\ IF inv.res # "Ok"
                 THEN /\ result' = [kind |-> "Err", item |-> 0, cause |-> "inventory"]
                      /\ wpc' = "done"
                      /\ UNCHANGED <<filaments, todo>>
                 ELSE /\ filaments' = pending
                      /\ todo' = DOMAIN pending
                      /\ wpc' = "pool"
                      /\ UNCHANGED result
  /\ UNCHANGED <<options, fsFiles, tmpDirs, tmpFiles, pool, full, failed, wk, run,
                 started, lateStart, takenAfterFull, invoked, produced, nonzero,
                 firstClean, cdw>>

---------------------------------------------------------------------------
\* The worker pool: filaments.par_iter().try_for_each(render)

\* Mutant of StopRequested: for_each in place of try_for_each, the flag is
\* never looked at
StopIgnored(flag) == FALSE

\* try_for_each: a worker looks at the shared stop flag before it goes on to
\* its next record
StopRequested(flag) == flag

\* A worker that is between records either leaves (the flag is set, or no
\* record is left) or takes a record nobody has taken
pool_take(w) ==
  /\ wpc = "pool"
  /\ w \in pool
  /\ wk[w].pc = "idle"
  /\ IF StopRequested(full) \/ todo = {}
     THEN /\ wk' = [wk EXCEPT ![w].pc = "exit"]
          /\ UNCHANGED <<todo, takenAfterFull>>
     ELSE \E i \in todo :
            /\ todo' = todo \ {i}
            /\ wk' = [wk EXCEPT ![w] = [IdleWorker EXCEPT !.pc = "taken", !.item = i]]
            /\ takenAfterFull' = (takenAfterFull \/ full)
  /\ UNCHANGED <<options, fsDirs, fsFiles, tmpDirs, tmpFiles, pool, wpc, result,
                 existing, filaments, full, failed, run, started, lateStart,
                 invoked, produced, nonzero, firstClean, cdw>>

\* render() returning: the worker holds the Result until the reducer sees it
Returned(w, res, cause, exit) ==
  /\ wk' = [wk EXCEPT ![w].pc = "returned", ![w].res = res,
                      ![w].cause = cause, ![w].exit = exit]
  /\ failed' = IF res = "Err" THEN failed \cup {wk[w].item} ELSE failed

\* Mutant of drop_work_dir: the directory is kept (TempDir::into_path)
keep_work_dir(tmp, w) == tmp

\* Drop of render()'s work_dir (tempfile::TempDir): the directory and what is
\* in it are removed.  tmp is [dirs, files].
drop_work_dir(tmp, w) ==
  [dirs |-> tmp.dirs \ {w}, files |-> {x \in tmp.files : x[1] # w}]

DropWorkDir(w) ==
  LET t == drop_work_dir([dirs |-> tmpDirs, files |-> tmpFiles], w)
  IN  tmpDirs' = t.dirs /\ tmpFiles' = t.files

\* render(): lines 115-127, the file name, the destination and its directory
render_begin(w) ==
  /\ wpc = "pool"
  /\ w \in pool
  /\ wk[w].pc = "taken"
  /\ LET f == filaments[wk[w].item]
         made == create_output_dir(fsDirs, fsFiles, DestinationDir(f))
     IN  /\ started' = started \cup {wk[w].item}
         /\ lateStart' = (lateStart \/ failed # {})
         /\ fsDirs' = made.dirs
         /\ IF made.res = "Ok"
            THEN /\ wk' = [wk EXCEPT ![w].pc = "tempdir",
                                     ![w].dst = OutputPath(f, options.output_format)]
                 /\ UNCHANGED failed
            ELSE Returned(w, "Err", "dir", "none")
  /\ UNCHANGED <<options, fsFiles, tmpDirs, tmpFiles, pool, wpc, result, existing,
                 filaments, todo, full, run, takenAfterFull, invoked, produced,
                 nonzero, firstClean, cdw>>

\* render(): line 128, let work_dir = tempfile::tempdir()?
render_tempdir(w) ==
  /\ wpc = "pool"
  /\ w \in pool
  /\ wk[w].pc = "tempdir"
  /\ \/ /\ tmpDirs' = tmpDirs \cup {w}
        /\ wk' = [wk EXCEPT ![w].pc = "scad"]
        /\ UNCHANGED failed
     \/ /\ Returned(w, "Err", "tempdir", "none")
        /\ UNCHANGED tmpDirs
  /\ UNCHANGED <<options, fsDirs, fsFiles, tmpFiles, pool, wpc, result, existing,
                 filaments, todo, full, run, started, lateStart, takenAfterFull,
                 invoked, produced, nonzero, firstClean, cdw>>

\* render(): lines 155-156, std::fs::write(&swatch_path, SWATCH_SCAD_FILE)?
render_write_scad(w) ==
  /\ wpc = "pool"
  /\ w \in pool
  /\ wk[w].pc = "scad"
  /\ \/ /\ tmpFiles' = tmpFiles \cup {<<w, "swatch.scad">>}
        /\ wk' = [wk EXCEPT ![w].pc = "settings"]
        /\ UNCHANGED <<tmpDirs, failed>>
     \/ /\ Returned(w, "Err", "scad", "none")
        /\ DropWorkDir(w)
  /\ UNCHANGED <<options, fsDirs, fsFiles, pool, wpc, result, existing,
                 filaments, todo, full, run, started, lateStart, takenAfterFull,
                 invoked, produced, nonzero, firstClean, cdw>>

\* render(): lines 158-159, File::create(&swatch_parameters)? and
\* serde_json::to_writer_pretty(..)?
render_write_settings(w) ==
  /\ wpc = "pool"
  /\ w \in pool
  /\ wk[w].pc = "settings"
  /\ \/ /\ tmpFiles' = tmpFiles \cup {<<w, "settings.json">>}
        /\ wk' = [wk EXCEPT ![w].pc = "spawn"]
        /\ UNCHANGED <<tmpDirs, failed>>
     \/ /\ Returned(w, "Err", "settings", "none")
        /\ DropWorkDir(w)
  /\ UNCHANGED <<options, fsDirs, fsFiles, pool, wpc, result, existing,
                 filaments, todo, full, run, started, lateStart, takenAfterFull,
                 invoked, produced, nonzero, firstClean, cdw>>

\* What the renderer process can do: it cannot be spawned, it exits 0 having
\* written the output file, or it exits non-zero having written nothing
RendererOutcomes == {"nospawn", "zero", "nonzero"}

\* render(): lines 161-171.  Command::output()? is Err only when the process
\* could not be spawned; the ExitStatus of the Output is not looked at
RenderResult(outcome) == IF outcome = "nospawn" THEN "Err" ELSE "Ok"

\* render(): lines 161-172, the renderer runs and render() returns
render_spawn(w) ==
  /\ wpc = "pool"
  /\ w \in pool
  /\ wk[w].pc = "spawn"
  /\ \E outcome \in RendererOutcomes :
       /\ invoked' = IF outcome = "nospawn" THEN invoked
                     ELSE invoked \cup {<<wk[w].item, wk[w].dst>>}
       /\ fsFiles' = IF outcome = "zero" THEN fsFiles \cup {wk[w].dst} ELSE fsFiles
       /\ produced' = IF outcome = "zero" THEN produced \cup {wk[w].dst} ELSE produced
       /\ nonzero' = IF outcome = "nonzero" THEN nonzero \cup {wk[w].item} ELSE nonzero
       /\ Returned(w, RenderResult(outcome), IF outcome = "nospawn" THEN "spawn" ELSE "none",
                   outcome)
  /\ DropWorkDir(w)
  /\ UNCHANGED <<options, fsDirs, pool, wpc, result, existing, filaments, todo,
                 full, run, started, lateStart, takenAfterFull, firstClean, cdw>>

\* try_for_each's reducer takes the Result of the worker's render(): an Err
\* sets the shared stop flag
pool_consume(w) ==
  /\ wpc = "pool"
  /\ w \in pool
  /\ wk[w].pc = "returned"
  /\ full' = (full \/ wk[w].res = "Err")
  /\ wk' = [wk EXCEPT ![w] = IdleWorker]
  /\ UNCHANGED <<options, fsDirs, fsFiles, tmpDirs, tmpFiles, pool, wpc, result,
                 existing, filaments, todo, failed, run, started, lateStart,
                 takenAfterFull, invoked, produced, nonzero, firstClean, cdw>>

\* write(): lines 199-203.  try_for_each returns when every worker has left:
\* Ok, or the Err of one of the renders that failed
write_finish ==
  /\ wpc = "pool"
  /\ \A w \in pool : wk[w].pc = "exit"
  /\ IF failed = {}
     THEN result' = [kind |-> "Ok", item |-> 0, cause |-> "none"]
     ELSE \E i \in failed : result' = [kind |-> "Err", item |-> i, cause |-> "render"]
  /\ wpc' = "done"
  /\ firstClean' = IF run = "first" THEN failed = {} /\ nonzero = {} ELSE firstClean
  /\ UNCHANGED <<options, fsDirs, fsFiles, tmpDirs, tmpFiles, pool, existing,
                 filaments, todo, full, failed, wk, run, started, lateStart,
                 takenAfterFull, invoked, produced, nonzero, cdw>>

\* The command is run a second time with the same options, on the file
\* system the first run left
write_again ==
  /\ wpc = "done"
  /\ run = "first"
  /\ run' = "second"
  /\ wpc' = "start"
  /\ result' = NoResult
  /\ existing' = {}
  /\ filaments' = <<>>
  /\ todo' = {}
  /\ full' = FALSE
  /\ failed' = {}
  /\ wk' = [w \in WorkerIds |-> IdleWorker]
  /\ started' = {}
  /\ lateStart' = FALSE
  /\ takenAfterFull' = FALSE
  /\ invoked' = {}
  /\ produced' = {}
  /\ nonzero' = {}
  /\ UNCHANGED <<options, fsDirs, fsFiles, tmpDirs, tmpFiles, pool, firstClean, cdw>>

Next ==
  \/ write_setup
  \/ \E w \in WorkerIds : pool_take(w)
  \/ \E w \in WorkerIds : render_begin(w)
  \/ \E w \in WorkerIds : render_tempdir(w)
  \/ \E w \in WorkerIds : render_write_scad(w)
  \/ \E w \in WorkerIds : render_write_settings(w)
  \/ \E w \in WorkerIds : render_spawn(w)
  \/ \E w \in WorkerIds : pool_consume(w)
  \/ write_finish

Spec == Init /\ [][Next]_vars

\* The command run twice in a row
InitRerun ==
  /\ options \in AllOptions
  /\ options.inventory_file = "missing" => options.rows = <<>>
  /\ InitFs
  /\ pool = {"w1", "w2"}
  /\ run = "first"
  /\ firstClean = FALSE
  /\ cdw = [w \in WorkerIds |-> IdleDirCall]
  /\ RunStart

NextRerun == Next \/ write_again

SpecRerun == InitRerun /\ [][NextRerun]_vars

---------------------------------------------------------------------------
\* create_output_dir step by step, called by several workers at once
\* (render(), line 125)

\* mkdir(2) on p
Mkdir(dirs, files, p) ==
  IF p \in dirs \cup files THEN "AlreadyExists"
  ELSE IF Parent(p) \in dirs THEN "Ok"
  ELSE IF Prefixes(p) \cap files # {} THEN "NotADirectory"
  ELSE "NotFound"

\* Mutant of MkdirTolerated: create_dir in place of create_dir_all, every
\* failed mkdir is an error
MkdirStrict(dirs, p) == FALSE

\* std::fs::create_dir_all: a failed mkdir is not an error when the path is
\* a directory by then (`Err(_) if path.is_dir() => Ok(())`)
MkdirTolerated(dirs, p) == p \in dirs

Last(st) == st[Len(st)]

\* create_dir_all returning Ok from its innermost call: the caller, if any,
\* goes on to make its own directory
DirLevelOk(w) ==
  LET rest == SubSeq(cdw[w].stack, 1, Len(cdw[w].stack) - 1)
  IN  IF rest = <<>>
      THEN [cdw[w] EXCEPT !.pc = "done", !.res = "Ok", !.stack = rest]
      ELSE [cdw[w] EXCEPT !.pc = "mkdir2", !.stack = rest]

\* fs.rs lines 49-56: std::fs::metadata(path)
cd_metadata(w) ==
  /\ w \in pool
  /\ cdw[w].pc = "call"
  /\ cdw' = [cdw EXCEPT ![w] =
       IF cdw[w].path \in fsDirs THEN [@ EXCEPT !.pc = "done", !.res = "Ok"]
       ELSE IF cdw[w].path \in fsFiles
            THEN [@ EXCEPT !.pc = "done", !.res = "Inaccessible"]
            ELSE [@ EXCEPT !.pc = "mkdir", !.stack = <<cdw[w].path>>]]
  /\ UNCHANGED <<options, fsDirs, fsFiles, tmpDirs, tmpFiles, pool, wpc, result,
                 existing, filaments, todo, full, failed, wk, run, started,
                 lateStart, takenAfterFull, invoked, produced, nonzero, firstClean>>

\* fs.rs line 57, create_dir_all: the first mkdir of a path; NotFound sends
\* it to the parent.  The is_dir test that follows a failed mkdir is taken in
\* the same step: nothing removes a directory or a file, so a path that
\* mkdir found in place answers is_dir the same way afterwards.
cd_mkdir(w) ==
  /\ w \in pool
  /\ cdw[w].pc = "mkdir"
  /\ LET p == Last(cdw[w].stack)
         r == Mkdir(fsDirs, fsFiles, p)
     IN  /\ fsDirs' = IF r = "Ok" THEN fsDirs \cup {p} ELSE fsDirs
         /\ cdw' = [cdw EXCEPT ![w] =
              IF r = "Ok" THEN DirLevelOk(w)
              ELSE IF r = "NotFound"
                   THEN [@ EXCEPT !.stack = Append(@, Parent(p))]
                   ELSE IF MkdirTolerated(fsDirs, p)
                        THEN [DirLevelOk(w) EXCEPT !.raced = TRUE]
                        ELSE [@ EXCEPT !.pc = "done", !.res = "Io"]]
  /\ UNCHANGED <<options, fsFiles, tmpDirs, tmpFiles, pool, wpc, result,
                 existing, filaments, todo, full, failed, wk, run, started,
                 lateStart, takenAfterFull, invoked, produced, nonzero, firstClean>>

\* fs.rs line 57, create_dir_all: the mkdir of a path after its parent was made
cd_mkdir_again(w) ==
  /\ w \in pool
  /\ cdw[w].pc = "mkdir2"
  /\ LET p == Last(cdw[w].stack)
         r == Mkdir(fsDirs, fsFiles, p)
     IN  /\ fsDirs' = IF r = "Ok" THEN fsDirs \cup {p} ELSE fsDirs
         /\ cdw' = [cdw EXCEPT ![w] =
              IF r = "Ok" THEN DirLevelOk(w)
              ELSE IF MkdirTolerated(fsDirs, p)
                   THEN [DirLevelOk(w) EXCEPT !.raced = TRUE]
                   ELSE [@ EXCEPT !.pc = "done", !.res = "Io"]]
  /\ UNCHANGED <<options, fsFiles, tmpDirs, tmpFiles, pool, wpc, result,
                 existing, filaments, todo, full, failed, wk, run, started,
                 lateStart, takenAfterFull, invoked, produced, nonzero, firstClean>>

\* the directories render() asks for, and one of another material
DirPaths ==
  {DestinationDir(f) : f \in FilamentRecords} \cup {<< <<"Q">>, <<"A">> >>}

\* The output root exists (write() has made it); below it some directories
\* and some regular files may already be there
InitDir ==
  /\ fsDirs \in {{Root}, {Root, << <<"P">> >>}, {Root, << <<"P">> >>, << <<"P">>, <<"A">> >>}}
  /\ fsFiles \in {{}, {<< <<"Q">> >>}, {<< <<"P">>, <<"B">> >>}}
  /\ \A p \in fsFiles : Parent(p) \in fsDirs
  /\ pool = WorkerIds
  /\ cdw \in [WorkerIds -> {[IdleDirCall EXCEPT !.pc = "call", !.path = p] : p \in DirPaths}]
  /\ options = [inventory_file |-> "present", rows |-> <<>>,
                output_format |-> "Stl", force |-> FALSE]
  /\ run = "first"
  /\ firstClean = FALSE
  /\ wpc = "pool"
  /\ result = NoResult
  /\ existing = {}
  /\ filaments = <<>>
  /\ todo = {}
  /\ full = FALSE
  /\ failed = {}
  /\ wk = [w \in WorkerIds |-> [IdleWorker EXCEPT !.pc = "dir"]]
  /\ started = {}
  /\ lateStart = FALSE
  /\ takenAfterFull = FALSE
  /\ invoked = {}
  /\ produced = {}
  /\ nonzero = {}
  /\ tmpDirs = {}
  /\ tmpFiles = {}

NextDir ==
  \/ \E w \in WorkerIds : cd_metadata(w)
  \/ \E w \in WorkerIds : cd_mkdir(w)
  \/ \E w \in WorkerIds : cd_mkdir_again(w)

SpecDir == InitDir /\ [][NextDir]_vars

---------------------------------------------------------------------------
\* Properties

Range(sq) == {sq[i] : i \in DOMAIN sq}

\* the records the inventory file of the run parses into
Parsed == Range(ParsedRecords(options.rows))

\* "<manufacturer> - <material> - <color>.<ext>"
RenderedName(f, fmt) == to_string(f) \o <<DOT>> \o FormatExtension(fmt)

\* positions of render() at which the output path has been computed
InRender == {"tempdir", "scad", "settings", "spawn"}

\* C1: when the first run returned Ok with every renderer having written its
\* output file, a second run with the same options and without the force flag
\* has an empty pending set and starts no render.
C1_Idempotent ==
  (run = "second" /\ firstClean /\ ~options.force)
    => (started = {} /\ (wpc # "start" => filaments = <<>>))

\* C2: render() returns Ok exactly when the renderer was spawned and exited
\* with status 0, and write() returns an error when a renderer exited with a
\* non-zero status.
C2_FailurePropagates ==
  /\ \A w \in pool :
       (wk[w].pc = "returned" /\ wk[w].exit # "none")
         => (wk[w].res = "Ok" <=> wk[w].exit = "zero")
  /\ (wpc = "done" /\ nonzero # {}) => result.kind = "Err"

\* C3: right after write() has computed the pending set, a parsed record is
\* left out of it exactly when a file named "<identity>.<ext>" exists somewhere
\* below the output root.
C3_Dedup ==
  (wpc = "pool" /\ todo = DOMAIN filaments)
    => \A f \in Parsed :
         (\E p \in fsFiles \ {Root} : Basename(p) = RenderedName(f, options.output_format))
           <=> f \notin Range(filaments)

\* C4 as claimed: no render() begins after another render() has returned an
\* error; write() returns the error of a failed render; the files renders
\* have produced are there when write() returns.
C4_StopOnFirstError ==
  /\ ~lateStart
  /\ (wpc = "done" /\ failed # {}) => (result.kind = "Err" /\ result.item \in failed)
  /\ wpc = "done" => produced \subseteq fsFiles

\* C4 as amended: no record is taken once the stop flag is set (a record
\* taken before that may still be rendered); when write() returns every
\* worker has left, its result is the error of a failed render if there is
\* one, and the files renders have produced are there.
C4_StopAfterFlag ==
  /\ ~takenAfterFull
  /\ wpc = "done" => \A w \in pool : wk[w].pc \in {"idle", "exit"}
  /\ (wpc = "done" /\ failed # {}) => (result.kind = "Err" /\ result.item \in failed)
  /\ wpc = "done" => produced \subseteq fsFiles

\* a run that stopped on an error with a record never taken
C4_Witness ==
  /\ wpc = "done"
  /\ result.kind = "Err"
  /\ result.item \in failed
  /\ todo # {}
  /\ full

\* C5: no two renders of a run are given the same output path: neither two
\* that are in flight together nor two renderer processes of different records.
C5_OneWriterPerPath ==
  /\ \A w, v \in pool :
       (w # v /\ wk[w].pc \in InRender /\ wk[v].pc \in InRender)
         => wk[w].dst # wk[v].dst
  /\ \A x, y \in invoked : x[1] # y[1] => x[2] # y[2]

\* C6: the output path of a render is
\* <material>/<manufacturer>/<manufacturer> - <material> - <color>.<ext>
\* below the output root.
C6_OutputPath ==
  \A w \in pool :
    wk[w].pc \in InRender
      => LET f == filaments[wk[w].item]
         IN  wk[w].dst = <<f.material, f.manufacturer,
                           RenderedName(f, options.output_format)>>

\* C7: a worker that is not inside render() holds no temporary directory and
\* no file in one, and none is left when write() has returned.
C7_TempDirRemoved ==
  /\ \A w \in pool :
       wk[w].pc \in {"idle", "taken", "returned", "exit"}
         => (w \notin tmpDirs /\ \A x \in tmpFiles : x[1] # w)
  /\ wpc = "done" => (tmpDirs = {} /\ tmpFiles = {})

\* a render() that had its temporary directory and both files in it, and
\* returned because the renderer could not be spawned
C7_Witness ==
  \E w \in pool :
    /\ wk[w].pc = "returned"
    /\ wk[w].cause = "spawn"
    /\ w \notin tmpDirs

C9_ForceRendersAll ==
  (options.force /\ wpc = "pool") => filaments = ParsedRecords(options.rows)

\* C10: a finished create_output_dir call has returned Ok with the directory
\* in place when no component of its path is a regular file, and has returned
\* Inaccessible only for a path that is a regular file.
C10_ConcurrentCreate ==
  \A w \in pool :
    cdw[w].pc = "done"
      => /\ Prefixes(cdw[w].path) \cap fsFiles = {}
              => (cdw[w].res = "Ok" /\ cdw[w].path \in fsDirs)
         /\ cdw[w].res = "Inaccessible" => cdw[w].path \in fsFiles

\* two calls on one path, both Ok, one of which found the directory made
\* under it between its own steps
C10_Witness ==
  \E w, v \in pool :
    /\ w # v
    /\ cdw[w].path = cdw[v].path
    /\ cdw[w].pc = "done" /\ cdw[w].res = "Ok" /\ cdw[w].raced
    /\ cdw[v].pc = "done" /\ cdw[v].res = "Ok"

====
